---- MODULE Spec2Model ----
(***************************************************************************)
(* trigger-proxy (src/app.go): a debouncing proxy that maps                *)
(* (repository, branch) events to build jobs and triggers each job one     *)
(* quiet period after the last event for it.                               *)
(*                                                                         *)
(* Strings are sequences of one-character strings, so that joining with    *)
(* the separator "|" is computed and not assumed injective.                *)
(*                                                                         *)
(* Goroutines: net/http runs every request handler in its own goroutine,   *)
(* time.AfterFunc runs every expiry callback in its own goroutine, and the *)
(* map timeKeeper is shared by all of them without a lock.  Each map       *)
(* operation is one step; two goroutines that are both about to access the *)
(* map, one of them writing, may also be caught by the Go runtime          *)
(* ("fatal error: concurrent map writes"), which ends the process.         *)
(*                                                                         *)
(* Time is a discrete clock in seconds.  A pending timer fires when the    *)
(* clock reaches its deadline: the clock does not pass the deadline of a   *)
(* pending timer.  Goroutines run at any speed: a handler or a callback    *)
(* may be delayed for seconds between two of its steps.                    *)
(*                                                                         *)
(* Configuration: the package variables (JenkinsURL, ..., QuietPeriod) are *)
(* assigned only by parseFlags, which nothing calls.  Started from main,   *)
(* the process enters run with their zero values and exits with status 1   *)
(* (SpecStart).  The specifications of the serving process start in the    *)
(* state run reaches at http.ListenAndServe when its caller has assigned   *)
(* the variables.                                                          *)
(***************************************************************************)
EXTENDS Integers, Sequences, FiniteSets, TLC

VARIABLES
    mapping,      \* var mapping: key -> list of job names (app.go:21)
    QuietPeriod,  \* var QuietPeriod, seconds (app.go:29)
    timeKeeper,   \* var timeKeeper: job name -> timer (app.go:22)
    timers,       \* every timer time.AfterFunc created, in creation order
    handlers,     \* the request-handler goroutines
    now,          \* the clock, in seconds
    fault,        \* {} or the jobs of two goroutines whose map accesses collided
    failedJobs,   \* the jobs that had a dispatch fail (the log's failures)
    file,         \* the mapping source: the records encoding/csv yields
    filematch,    \* var FileMatching (app.go:30)
    loaded,       \* what ParseMappingFile returned for file
    looked,       \* the last lookup made on the loaded table
    JenkinsURL,   \* var JenkinsURL (app.go:24)
    JenkinsUser,  \* var JenkinsUser (app.go:25)
    JenkinsToken, \* var JenkinsToken (app.go:26)
    JenkinsMulti, \* var JenkinsMulti (app.go:27)
    args,         \* os.Args[1:], the flags on the command line
    proc,         \* the process: in main, in run, serving or exited
    call,         \* the last call of triggerJob: what it sent and returned
    hist          \* history: the requests received and what each one armed

vars == <<mapping, QuietPeriod, timeKeeper, timers, handlers, now,
          fault, failedJobs, file, filematch, loaded, looked,
          JenkinsURL, JenkinsUser, JenkinsToken, JenkinsMulti, args, proc, call,
          hist>>

timerVars == <<mapping, QuietPeriod, timeKeeper, timers, handlers, now, fault, failedJobs>>
parseVars == <<file, filematch, loaded, looked>>
cfgVars == <<JenkinsURL, JenkinsUser, JenkinsToken, JenkinsMulti, args, proc, call>>

----------------------------------------------------------------------------
(* Bounds *)

MaxTimers == 2
MaxTime == 2
MaxRows == 2

----------------------------------------------------------------------------
(* Strings *)

Sep == "|"
RepoA == <<"a">>
RepoB == <<"b">>
RepoC == <<"c">>
RepoAB == <<"a", "|", "b">>
Main == <<"m">>
Dev == <<"d">>
BDev == <<"b", "|", "d">>
DevPat == <<"d", "|", "f">>
Master == <<"m", "a", "s", "t", "e", "r">>
Job1 == <<"j">>
Job2 == <<"k">>
Pat == <<"f">>
BaseURL == <<"h">>
Multi == <<"p">>
User == <<"u">>
Token == <<"t">>
SlashJob == <<"/", "j", "o", "b", "/">>
SlashBuild == <<"/", "b", "u", "i", "l", "d">>
TokenParam == <<"?", "t", "o", "k", "e", "n", "=">>
\* an ASCII control character, which net/url refuses in a URL
Ctl == "\t"
JobCtl == <<"j", "\t">>

HasSep(s) == \E i \in 1..Len(s) : s[i] = Sep

----------------------------------------------------------------------------
(* Key Builder and Mapping Table *)

RECURSIVE Join(_)
Join(keys) ==
    IF Len(keys) = 0 THEN <<>>
    ELSE IF Len(keys) = 1 THEN keys[1]
    ELSE keys[1] \o <<Sep>> \o Join(Tail(keys))

BuildMappingKey(keys) == Join(keys)

EmptyMap == [k \in {} |-> <<>>]

\* m[key] of a Go map: the zero value (a nil slice) when the key is absent
Lookup(m, key) == IF key \in DOMAIN m THEN m[key] ELSE <<>>

MapAppendFront(m, key, v) ==
    [k \in DOMAIN m \cup {key} |-> IF k = key THEN <<v>> \o Lookup(m, key) ELSE m[k]]

\* m[key] = append(m[key], v)
MapAppend(m, key, v) ==
    [k \in DOMAIN m \cup {key} |-> IF k = key THEN Lookup(m, key) \o <<v>> ELSE m[k]]

NilTable == [isNil |-> TRUE, entries |-> EmptyMap]

ParseFailPartial(m, e) == [tm |-> [isNil |-> FALSE, entries |-> m], err |-> e]

\* return triggerMapping{mapping: nil}, err
ParseFail(m, e) == [tm |-> NilTable, err |-> e]

FileMatchKeyNoPattern(record) == BuildMappingKey(<<record[1], record[2]>>)

\* line 274: the key of a row in file-matching mode
FileMatchKey(record) == BuildMappingKey(<<record[1], record[2], record[4]>>)

\* The loop of ParseMappingFile from record i on, with the table m built so far.
\* want is csv.Reader.FieldsPerRecord: 0 until the first record sets it; a later
\* record of another length makes reader.Read return ErrFieldCount.
\* err "panic" is the run-time panic of record[1] or record[2] on a short record.
RECURSIVE ParseRows(_, _, _, _, _)
ParseRows(f, i, want, m, fm) ==
    IF i > Len(f) THEN [tm |-> [isNil |-> FALSE, entries |-> m], err |-> "nil"]
    ELSE LET record == f[i]
             n == Len(record)
         IN  IF want # 0 /\ n # want THEN ParseFail(m, "ErrFieldCount")
             ELSE IF fm
                  THEN IF n # 4 THEN ParseFail(m, "no file matching information")
                       ELSE ParseRows(f, i + 1, n,
                                MapAppend(m, FileMatchKey(record), record[3]), fm)
                  ELSE IF n < 3 THEN ParseFail(m, "panic")
                       ELSE ParseRows(f, i + 1, n,
                                MapAppend(m, BuildMappingKey(<<record[1], record[2]>>),
                                          record[3]), fm)

ParseMappingFile(f, fm) == ParseRows(f, 1, 0, EmptyMap, fm)

----------------------------------------------------------------------------
(* Request parsing *)

\* A request's query: the list of values of each parameter, <<>> when absent.
Query(repos, branchs) == [repo |-> repos, branch |-> branchs]

ParseGetRequestNoAbort(q) ==
    [repo |-> IF Len(q.repo) < 1 THEN <<>> ELSE q.repo[1],
     branch |-> IF Len(q.branch) < 1 THEN Master ELSE q.branch[1],
     err |-> FALSE]

ParseGetRequestDefaultMain(q) ==
    IF Len(q.repo) < 1
    THEN [repo |-> <<>>, branch |-> <<>>, err |-> TRUE]
    ELSE [repo |-> q.repo[1],
          branch |-> IF Len(q.branch) < 1 THEN Main ELSE q.branch[1],
          err |-> FALSE]

ParseGetRequest(q) ==
    IF Len(q.repo) < 1
    THEN [repo |-> <<>>, branch |-> <<>>, err |-> TRUE]
    ELSE [repo |-> q.repo[1],
          branch |-> IF Len(q.branch) < 1 THEN Master ELSE q.branch[1],
          err |-> FALSE]

\* The job list handler iterates over: <<>> when it returns early.
HandlerJobs(q) ==
    LET p == ParseGetRequest(q)
        key == BuildMappingKey(<<p.repo, p.branch>>)
    IN  IF p.err THEN <<>> ELSE Lookup(mapping, key)

----------------------------------------------------------------------------
(* Trigger Dispatcher *)

StatusCodes == {200, 500}

\* What client.Do can return: a transport error or timeout, or a response.
Outcomes == {[err |-> TRUE, status |-> 0]} \cup [err : {FALSE}, status : StatusCodes]

Is2xx(o) == ~o.err /\ 200 <= o.status /\ o.status <= 299

\* the return value of triggerJob
triggerJob(o) == IF o.err THEN FALSE ELSE TRUE

----------------------------------------------------------------------------
(* Debounce Timer Registry *)

\* two request goroutines can be running at once
Handlers == {1, 2}
\* the values of -quietperiod the server is started with
QuietPeriods == {1, 2}
TimerIds == 1..Len(timers)

IdleHandler == [pc |-> "idle", jobs |-> <<>>, timer |-> 0]

\* the job the handler's current createTimer call is for
HJob(h) == Head(handlers[h].jobs)

Live(t) == timers[t].st \in {"pending", "dispatching", "check", "delete"}

AfterFuncNoDelay(t) == t

\* time.AfterFunc(time.Second*time.Duration(QuietPeriod), ...): the deadline
AfterFuncDeadline(t) == t + QuietPeriod

CallbackAfterTriggerOnSuccess(ok) == IF ok THEN "check" ELSE "done"

\* the callback discards triggerJob's result and goes on to the cleanup
CallbackAfterTrigger(ok) == "check"

RemoveKey(m, k) == [x \in DOMAIN m \ {k} |-> m[x]]

crashed == fault # {}

RECURSIVE SumOwed(_)
SumOwed(hs) ==
    IF hs = {} THEN 0
    ELSE LET h == CHOOSE x \in hs : TRUE
         IN  Len(handlers[h].jobs)
                - (IF handlers[h].pc \in {"store", "saved"} THEN 1 ELSE 0)
             + SumOwed(hs \ {h})

\* the timers the running handlers have yet to create
Owed == SumOwed(Handlers)

\* The example mapping source the server is started with.
ExampleFile ==
    << <<RepoA, Main, Job1>>,
       <<RepoA, Master, Job2>>,
       <<RepoB, Main, Job1>>,
       <<RepoB, Main, Job1>> >>

Requests ==
    { Query(<<RepoA>>, <<Main>>),
      Query(<<RepoA>>, <<>>),
      Query(<<RepoB>>, <<Main>>),
      Query(<<RepoC>>, <<Main>>),
      Query(<<>>, <<Main>>) }

NotLooked == [done |-> FALSE, repo |-> <<>>, branch |-> <<>>, jobs |-> <<>>]

\* the process stages: main is about to call run, run has been entered, the
\* process has ended, http.ListenAndServe is serving
AtMain == [pc |-> "main", exit |-> 0]
Starting == [pc |-> "start", exit |-> 0]
Exited(code) == [pc |-> "exited", exit |-> code]
Serving == [pc |-> "serving", exit |-> 0]

NoRequest == [url |-> <<>>, auth |-> <<>>]
NoCall == [done |-> FALSE, job |-> <<>>, sent |-> FALSE, req |-> NoRequest,
           url |-> <<>>, outcome |-> [err |-> TRUE, status |-> 0], ret |-> FALSE]

\* History.  by[h] is the event handler h is serving: its serial number, its
\* request, and whether a dispatch of the job was in flight when the current
\* createTimer call began; origin[t] is by[h] at the moment handler h created
\* timer t; drop flips whenever a request is dropped for its missing repo,
\* so that every dropped request is a step that shows.  History is kept only
\* in behaviours that start with hist.on.
NoEvent == [ev |-> 0, q |-> Query(<<>>, <<>>), inflight |-> FALSE]

NoHist == [on |-> FALSE, n |-> 0, drop |-> FALSE,
           by |-> [h \in Handlers |-> NoEvent], origin |-> <<>>]

Record(new) == IF hist.on THEN new ELSE hist

Init ==
    /\ file = ExampleFile
    /\ filematch = FALSE
    /\ loaded = ParseMappingFile(file, filematch)
    /\ looked = NotLooked
    /\ mapping = loaded.tm.entries
    /\ QuietPeriod \in QuietPeriods
    /\ timeKeeper = EmptyMap
    /\ timers = <<>>
    /\ handlers = [h \in Handlers |-> IdleHandler]
    /\ now = 0
    /\ fault = {}
    /\ failedJobs = {}
    /\ JenkinsURL = BaseURL
    /\ JenkinsUser = <<>>
    /\ JenkinsToken = Token
    /\ JenkinsMulti = <<>>
    /\ args = <<>>
    /\ proc = Serving
    /\ call = NoCall
    /\ hist = NoHist

\* handler: a request arrives and is parsed and looked up; with a non-empty job
\* list the loop starts with createTimer for the first job.  Idle handler
\* goroutines are interchangeable: the one of lowest number takes the request.
\* The conjunct on MaxTimers bounds the number of timers a behaviour creates.
handler(h, q) ==
    /\ ~crashed
    /\ proc.pc = "serving"
    /\ handlers[h].pc = "idle"
    /\ \A x \in Handlers : x < h => handlers[x].pc # "idle"
    /\ LET jobs == HandlerJobs(q)
       IN  /\ Len(timers) + Owed + Len(jobs) <= MaxTimers
           /\ handlers' = [handlers EXCEPT ![h] =
                    IF Len(jobs) = 0 THEN IdleHandler
                    ELSE [pc |-> "check", jobs |-> jobs, timer |-> 0]]
           /\ hist' = Record([hist EXCEPT
                    !.drop = IF ParseGetRequest(q).err THEN ~@ ELSE @,
                    !.n = IF Len(jobs) = 0 THEN @ ELSE @ + 1,
                    !.by[h] = IF Len(jobs) = 0 THEN NoEvent
                              ELSE [ev |-> hist.n + 1, q |-> q, inflight |-> FALSE]])
    /\ UNCHANGED <<mapping, QuietPeriod, timeKeeper, timers, now, fault, failedJobs>>
    /\ UNCHANGED parseVars
    /\ UNCHANGED cfgVars

\* createTimer line 81: if _, ok := timeKeeper[job]; ok
createTimerCheck(h) ==
    /\ ~crashed
    /\ proc.pc = "serving"
    /\ handlers[h].pc = "check"
    /\ handlers' = [handlers EXCEPT ![h].pc =
            IF HJob(h) \in DOMAIN timeKeeper THEN "stop" ELSE "afterfunc"]
    /\ hist' = Record([hist EXCEPT !.by[h].inflight =
            \E t \in TimerIds : timers[t].job = HJob(h) /\ timers[t].st = "dispatching"])
    /\ UNCHANGED <<mapping, QuietPeriod, timeKeeper, timers, now, fault, failedJobs>>
    /\ UNCHANGED parseVars
    /\ UNCHANGED cfgVars

\* createTimer line 83: timeKeeper[job].Stop().  When the entry is gone by now the
\* map yields a nil *time.Timer and Stop panics; net/http recovers the panic and
\* the handler goroutine ends without arming anything.
createTimerStop(h) ==
    /\ ~crashed
    /\ proc.pc = "serving"
    /\ handlers[h].pc = "stop"
    /\ IF HJob(h) \in DOMAIN timeKeeper
       THEN LET t == timeKeeper[HJob(h)]
            IN  /\ timers' = IF timers[t].st = "pending"
                             THEN [timers EXCEPT ![t].st = "stopped"]
                             ELSE timers
                /\ handlers' = [handlers EXCEPT ![h].pc = "delete"]
                /\ hist' = hist
       ELSE /\ timers' = timers
            /\ handlers' = [handlers EXCEPT ![h] = IdleHandler]
            /\ hist' = Record([hist EXCEPT !.by[h] = NoEvent])
    /\ UNCHANGED <<mapping, QuietPeriod, timeKeeper, now, fault, failedJobs>>
    /\ UNCHANGED parseVars
    /\ UNCHANGED cfgVars

\* createTimer line 84: delete(timeKeeper, job)
createTimerDelete(h) ==
    /\ ~crashed
    /\ proc.pc = "serving"
    /\ handlers[h].pc = "delete"
    /\ timeKeeper' = RemoveKey(timeKeeper, HJob(h))
    /\ handlers' = [handlers EXCEPT ![h].pc = "afterfunc"]
    /\ UNCHANGED <<mapping, QuietPeriod, timers, now, fault, failedJobs>>
    /\ UNCHANGED parseVars
    /\ UNCHANGED cfgVars
    /\ UNCHANGED hist

\* createTimer line 89: timer := time.AfterFunc(...)
createTimerAfterFunc(h) ==
    /\ ~crashed
    /\ proc.pc = "serving"
    /\ handlers[h].pc = "afterfunc"
    /\ timers' = Append(timers,
            [job |-> HJob(h), armed |-> now, deadline |-> AfterFuncDeadline(now),
             st |-> "pending", firedAt |-> -1,
             idleAtArm |-> \A t \in TimerIds : timers[t].job = HJob(h) => ~Live(t)])
    /\ handlers' = [handlers EXCEPT ![h].pc = "store", ![h].timer = Len(timers) + 1]
    /\ hist' = Record([hist EXCEPT !.origin = Append(@, hist.by[h])])
    /\ UNCHANGED <<mapping, QuietPeriod, timeKeeper, now, fault, failedJobs>>
    /\ UNCHANGED parseVars
    /\ UNCHANGED cfgVars

\* createTimer line 98: timeKeeper[job] = timer
createTimerStore(h) ==
    /\ ~crashed
    /\ proc.pc = "serving"
    /\ handlers[h].pc = "store"
    /\ timeKeeper' = [k \in DOMAIN timeKeeper \cup {HJob(h)} |->
                        IF k = HJob(h) THEN handlers[h].timer ELSE timeKeeper[k]]
    /\ handlers' = [handlers EXCEPT ![h].pc = "saved"]
    /\ UNCHANGED <<mapping, QuietPeriod, timers, now, fault, failedJobs>>
    /\ UNCHANGED parseVars
    /\ UNCHANGED cfgVars
    /\ UNCHANGED hist

\* createTimer lines 99-103: if _, ok := timeKeeper[job]; ok, a read of the map
\* whose result only decides a log line, and the return to the handler's loop,
\* which goes on to the next job or ends.
createTimerSaved(h) ==
    /\ ~crashed
    /\ proc.pc = "serving"
    /\ handlers[h].pc = "saved"
    /\ handlers' = [handlers EXCEPT ![h] =
            IF Len(handlers[h].jobs) = 1 THEN IdleHandler
            ELSE [pc |-> "check", jobs |-> Tail(handlers[h].jobs), timer |-> 0]]
    /\ hist' = Record([hist EXCEPT !.by[h] =
            IF Len(handlers[h].jobs) = 1 THEN NoEvent ELSE [@ EXCEPT !.inflight = FALSE]])
    /\ UNCHANGED <<mapping, QuietPeriod, timeKeeper, timers, now, fault, failedJobs>>
    /\ UNCHANGED parseVars
    /\ UNCHANGED cfgVars

\* The timer matures: its callback starts and triggerJob sends the request.
timerFire(t) ==
    /\ ~crashed
    /\ proc.pc = "serving"
    /\ timers[t].st = "pending"
    /\ now >= timers[t].deadline
    /\ timers' = [timers EXCEPT ![t].st = "dispatching", ![t].firedAt = now]
    /\ UNCHANGED <<mapping, QuietPeriod, timeKeeper, handlers, now, fault, failedJobs>>
    /\ UNCHANGED parseVars
    /\ UNCHANGED cfgVars
    /\ UNCHANGED hist

\* triggerJob returns to the callback (line 91).
triggerJobReturn(t, o) ==
    /\ ~crashed
    /\ proc.pc = "serving"
    /\ timers[t].st = "dispatching"
    /\ timers' = [timers EXCEPT ![t].st = CallbackAfterTrigger(triggerJob(o))]
    /\ failedJobs' = IF Is2xx(o) THEN failedJobs ELSE failedJobs \cup {timers[t].job}
    /\ UNCHANGED <<mapping, QuietPeriod, timeKeeper, handlers, now, fault>>
    /\ UNCHANGED parseVars
    /\ UNCHANGED cfgVars
    /\ UNCHANGED hist

\* callback line 92: if _, ok := timeKeeper[job]; ok
callbackCheck(t) ==
    /\ ~crashed
    /\ proc.pc = "serving"
    /\ timers[t].st = "check"
    /\ timers' = [timers EXCEPT ![t].st =
            IF timers[t].job \in DOMAIN timeKeeper THEN "delete" ELSE "done"]
    /\ UNCHANGED <<mapping, QuietPeriod, timeKeeper, handlers, now, fault, failedJobs>>
    /\ UNCHANGED parseVars
    /\ UNCHANGED cfgVars
    /\ UNCHANGED hist

\* callback line 94: delete(timeKeeper, job)
callbackDelete(t) ==
    /\ ~crashed
    /\ proc.pc = "serving"
    /\ timers[t].st = "delete"
    /\ timeKeeper' = RemoveKey(timeKeeper, timers[t].job)
    /\ timers' = [timers EXCEPT ![t].st = "done"]
    /\ UNCHANGED <<mapping, QuietPeriod, handlers, now, fault, failedJobs>>
    /\ UNCHANGED parseVars
    /\ UNCHANGED cfgVars
    /\ UNCHANGED hist

\* The goroutines about to access timeKeeper, as <<kind, id, access, job>>.
MapAccesses ==
    { <<"h", h, IF handlers[h].pc \in {"check", "stop", "saved"} THEN "read" ELSE "write",
        HJob(h)>> :
        h \in {x \in Handlers :
                handlers[x].pc \in {"check", "stop", "delete", "store", "saved"}} }
    \cup
    { <<"t", t, IF timers[t].st = "check" THEN "read" ELSE "write", timers[t].job>> :
        t \in {x \in TimerIds : timers[x].st \in {"check", "delete"}} }

\* Two goroutines access the map at once, one of them writing: the runtime's
\* check throws "concurrent map writes" / "concurrent map read and map write".
concurrentMapAccess ==
    /\ ~crashed
    /\ proc.pc = "serving"
    /\ \E a, b \in MapAccesses :
        /\ a # b
        /\ a[3] = "write"
        /\ fault' = {a[4], b[4]}
    /\ UNCHANGED <<mapping, QuietPeriod, timeKeeper, timers, handlers, now, failedJobs>>
    /\ UNCHANGED parseVars
    /\ UNCHANGED cfgVars
    /\ UNCHANGED hist

\* run lines 227-229: http.ListenAndServe returns, because the port cannot be
\* bound or accepting a connection fails for good.  run drops the error and
\* returns nil, main returns and the process ends with status 0; its
\* goroutines and timers end with it, at whatever step they are.
listenAndServeReturn ==
    /\ ~crashed
    /\ proc.pc = "serving"
    /\ proc' = Exited(0)
    /\ UNCHANGED timerVars
    /\ UNCHANGED parseVars
    /\ UNCHANGED <<JenkinsURL, JenkinsUser, JenkinsToken, JenkinsMulti, args, call, hist>>

\* something can still happen: a timer can be created, or a goroutine is running
Active ==
    \/ Len(timers) < MaxTimers
    \/ \E t \in TimerIds : Live(t)
    \/ \E h \in Handlers : handlers[h].pc # "idle"

\* One second passes; not past the deadline of a pending timer.
Tick ==
    /\ ~crashed
    /\ proc.pc = "serving"
    /\ now < MaxTime
    /\ Active
    /\ \A t \in TimerIds : timers[t].st = "pending" => now < timers[t].deadline
    /\ now' = now + 1
    /\ UNCHANGED <<mapping, QuietPeriod, timeKeeper, timers, handlers, fault, failedJobs>>
    /\ UNCHANGED parseVars
    /\ UNCHANGED cfgVars
    /\ UNCHANGED hist

Next ==
    \/ \E h \in Handlers, q \in Requests : handler(h, q)
    \/ \E h \in Handlers : createTimerCheck(h)
    \/ \E h \in Handlers : createTimerStop(h)
    \/ \E h \in Handlers : createTimerDelete(h)
    \/ \E h \in Handlers : createTimerAfterFunc(h)
    \/ \E h \in Handlers : createTimerStore(h)
    \/ \E h \in Handlers : createTimerSaved(h)
    \/ \E t \in TimerIds : timerFire(t)
    \/ \E t \in TimerIds, o \in Outcomes : triggerJobReturn(t, o)
    \/ \E t \in TimerIds : callbackCheck(t)
    \/ \E t \in TimerIds : callbackDelete(t)
    \/ concurrentMapAccess
    \/ listenAndServeReturn
    \/ Tick

Spec == Init /\ [][Next]_vars

\* Fair scheduling: a goroutine that can take its next step takes it, a
\* matured timer fires, a trigger call returns (its client has a timeout),
\* and time goes on.  Requests are not forced, nor is the runtime's detection
\* of a concurrent map access.
Fairness ==
    /\ \A h \in Handlers :
        /\ WF_vars(createTimerCheck(h))
        /\ WF_vars(createTimerStop(h))
        /\ WF_vars(createTimerDelete(h))
        /\ WF_vars(createTimerAfterFunc(h))
        /\ WF_vars(createTimerStore(h))
        /\ WF_vars(createTimerSaved(h))
    /\ \A t \in 1..MaxTimers :
        /\ WF_vars(t \in TimerIds /\ timerFire(t))
        /\ WF_vars(t \in TimerIds /\ \E o \in Outcomes : triggerJobReturn(t, o))
        /\ WF_vars(t \in TimerIds /\ callbackCheck(t))
        /\ WF_vars(t \in TimerIds /\ callbackDelete(t))
    /\ WF_vars(Tick)

SpecFair == Spec /\ Fairness

----------------------------------------------------------------------------
(* Loading a mapping source and looking a pair up, on their own *)

Records ==
    { <<r, b, j>> : r \in {RepoA, RepoAB}, b \in {Dev, BDev}, j \in {Job1, Job2} }
    \cup { <<RepoA, Dev, j, Pat>> : j \in {Job1, Job2} }
    \cup { <<RepoA, BDev, Job1, Pat>> }
    \cup { <<RepoA, Dev>> }

RECURSIVE FilesOfLen(_)
FilesOfLen(n) ==
    IF n = 0 THEN { <<>> }
    ELSE { Append(f, r) : f \in FilesOfLen(n - 1), r \in Records }

Files == UNION { FilesOfLen(n) : n \in 0..MaxRows }

Unloaded == [tm |-> NilTable, err |-> "unloaded"]

InitParse ==
    /\ file \in Files
    /\ filematch \in BOOLEAN
    /\ loaded = Unloaded
    /\ looked = NotLooked
    /\ mapping = EmptyMap
    /\ QuietPeriod = 1
    /\ timeKeeper = EmptyMap
    /\ timers = <<>>
    /\ handlers = [h \in Handlers |-> IdleHandler]
    /\ now = 0
    /\ fault = {}
    /\ failedJobs = {}
    /\ JenkinsURL = BaseURL
    /\ JenkinsUser = <<>>
    /\ JenkinsToken = Token
    /\ JenkinsMulti = <<>>
    /\ args = <<>>
    /\ proc = Starting
    /\ call = NoCall
    /\ hist = NoHist

\* tm, perr := ParseMappingFile(file, FileMatching)
Load ==
    /\ loaded = Unloaded
    /\ loaded' = ParseMappingFile(file, filematch)
    /\ UNCHANGED <<file, filematch, looked>>
    /\ UNCHANGED timerVars
    /\ UNCHANGED cfgVars
    /\ UNCHANGED hist

\* mapping[BuildMappingKey([]string{repo, branch})] on the table that was loaded
LookupPair(repo, branch) ==
    /\ loaded.err = "nil"
    /\ looked' = [done |-> TRUE, repo |-> repo, branch |-> branch,
                  jobs |-> Lookup(loaded.tm.entries, BuildMappingKey(<<repo, branch>>))]
    /\ UNCHANGED <<file, filematch, loaded>>
    /\ UNCHANGED timerVars
    /\ UNCHANGED cfgVars
    /\ UNCHANGED hist

NextParse ==
    \/ Load
    \/ \E r \in {RepoA, RepoAB, RepoB}, b \in {Dev, BDev, DevPat} : LookupPair(r, b)

SpecParse == InitParse /\ [][NextParse]_vars

----------------------------------------------------------------------------
(* Startup (run, ProcessMappingFile) and the trigger call on its own *)

exitFail == 1

\* Stands for a mapping file os.Open fails on: encoding/csv yields no record
\* without fields, so no file that opens has this value.
NoFile == << <<>> >>

\* ProcessMappingFile: the error it returns and the value of var mapping after
\* it.  When parsing fails it returns err, the nil error of os.Open, and not
\* perr; mapping is assigned only after a successful parse.  A panic in
\* ParseMappingFile goes through it.
ProcessMappingFile(f, fm, m) ==
    IF f = NoFile THEN [err |-> "open", mapping |-> m, parsed |-> Unloaded]
    ELSE LET p == ParseMappingFile(f, fm)
         IN  IF p.err = "panic" THEN [err |-> "panic", mapping |-> m, parsed |-> p]
             ELSE IF p.err # "nil" THEN [err |-> "nil", mapping |-> m, parsed |-> p]
             ELSE [err |-> "nil", mapping |-> p.tm.entries, parsed |-> p]

\* The command lines the process is started with: the flags parseFlags declares.
ArgLines ==
    { <<>>,
      << [flag |-> "jenkins-url", value |-> BaseURL],
         [flag |-> "jenkins-token", value |-> Token] >>,
      << [flag |-> "jenkins-url", value |-> BaseURL],
         [flag |-> "jenkins-user", value |-> User],
         [flag |-> "jenkins-token", value |-> Token],
         [flag |-> "jenkins-multi", value |-> Multi] >> }

\* main line 174: run(os.Args, os.Stdout).  Nothing calls parseFlags and
\* nothing reads the environment, so whatever the command line is, the package
\* variables hold their zero values when run is entered from main.
main ==
    /\ proc.pc = "main"
    /\ proc' = Starting
    /\ UNCHANGED timerVars
    /\ UNCHANGED parseVars
    /\ UNCHANGED <<JenkinsURL, JenkinsUser, JenkinsToken, JenkinsMulti, args, call, hist>>

\* run, from its entry to the call of http.ListenAndServe (the serving state),
\* and what main does when run returns an error: exit status 1 through
\* log.Fatalf; exit status 2 when the goroutine panics.  run does not read its
\* parameter args.
run ==
    /\ proc.pc = "start"
    /\ IF JenkinsURL = <<>> \/ JenkinsToken = <<>>
       THEN /\ proc' = Exited(exitFail)
            /\ UNCHANGED <<JenkinsURL, mapping, loaded>>
       ELSE LET r == ProcessMappingFile(file, filematch, mapping)
            IN  /\ JenkinsURL' = IF JenkinsMulti # <<>>
                                 THEN JenkinsURL \o SlashJob \o JenkinsMulti
                                 ELSE JenkinsURL
                /\ loaded' = r.parsed
                /\ mapping' = r.mapping
                /\ proc' = IF r.err = "panic" THEN Exited(2)
                           ELSE IF r.err # "nil" THEN Exited(exitFail)
                           ELSE Serving
    /\ UNCHANGED <<QuietPeriod, timeKeeper, timers, handlers, now, fault, failedJobs>>
    /\ UNCHANGED <<file, filematch, looked>>
    /\ UNCHANGED <<JenkinsUser, JenkinsToken, JenkinsMulti, args, call, hist>>

createJobURL(jenkinsURL, job) == jenkinsURL \o SlashJob \o job \o SlashBuild

\* http.NewRequest fails when the URL does not parse
ValidURL(u) == \A i \in 1..Len(u) : u[i] # Ctl

\* triggerJob(job), lines 38-59, up to the call of client.Do: the call as it
\* stands while the request is out.  req is the request handed to client.Do:
\* built from url at line 40, before line 50 assigns the local url.  When
\* http.NewRequest fails the call is over, nothing sent, false returned.
triggerJobSend(job) ==
    LET url == createJobURL(JenkinsURL, job)
    IN  IF ~ValidURL(url)
        THEN [NoCall EXCEPT !.done = TRUE, !.job = job, !.url = url]
        ELSE [NoCall EXCEPT
                !.job = job, !.sent = TRUE,
                !.req = [url |-> url,
                         auth |-> IF JenkinsUser # <<>>
                                  THEN <<JenkinsUser, JenkinsToken>> ELSE <<>>],
                !.url = IF JenkinsUser # <<>> THEN url
                        ELSE url \o TokenParam \o JenkinsToken]

\* triggerJob(job) as a whole, when client.Do returns o
triggerJobRun(job, o) ==
    LET c == triggerJobSend(job)
    IN  IF c.done THEN c
        ELSE [c EXCEPT !.done = TRUE, !.outcome = o, !.ret = triggerJob(o)]

\* a request is out: triggerJob waits in client.Do (line 59)
InFlight == call.sent /\ ~call.done

\* triggerJob is called and runs up to client.Do, where it waits for the build
\* server's answer or the client's timeout while the other goroutines go on.
triggerJobCall(job) ==
    /\ proc.pc = "serving"
    /\ ~InFlight
    /\ call' = triggerJobSend(job)
    /\ UNCHANGED timerVars
    /\ UNCHANGED parseVars
    /\ UNCHANGED <<JenkinsURL, JenkinsUser, JenkinsToken, JenkinsMulti, args, proc, hist>>

\* client.Do returns o and triggerJob runs to its return, lines 59-74
triggerJobAnswer(o) ==
    /\ proc.pc = "serving"
    /\ InFlight
    /\ call' = triggerJobRun(call.job, o)
    /\ UNCHANGED timerVars
    /\ UNCHANGED parseVars
    /\ UNCHANGED <<JenkinsURL, JenkinsUser, JenkinsToken, JenkinsMulti, args, proc, hist>>

DispatchStatusCodes == {199, 200, 204, 299, 300, 404, 500}
DispatchOutcomes ==
    {[err |-> TRUE, status |-> 0]} \cup [err : {FALSE}, status : DispatchStatusCodes]
DispatchJobs == {Job1, Job2, JobCtl}

\* The process is started from main with some command line: every package
\* variable holds its zero value, and no file is at the path "".  Or run is
\* entered with the package variables assigned by its caller, as a caller in
\* the package (a test, or a main that parses the flags first) enters it.
InitStart ==
    /\ \/ /\ proc = AtMain
          /\ args \in ArgLines
          /\ file = NoFile
          /\ filematch = FALSE
          /\ QuietPeriod = 0
          /\ JenkinsURL = <<>>
          /\ JenkinsUser = <<>>
          /\ JenkinsToken = <<>>
          /\ JenkinsMulti = <<>>
       \/ /\ proc = Starting
          /\ args = <<>>
          /\ file \in Files \cup {NoFile}
          /\ filematch \in BOOLEAN
          /\ QuietPeriod = 1
          /\ JenkinsURL \in {<<>>, BaseURL}
          /\ JenkinsUser \in {<<>>, User}
          /\ JenkinsToken \in {<<>>, Token}
          /\ JenkinsMulti \in {<<>>, Multi}
    /\ loaded = Unloaded
    /\ looked = NotLooked
    /\ mapping = EmptyMap
    /\ timeKeeper = EmptyMap
    /\ timers = <<>>
    /\ handlers = [h \in Handlers |-> IdleHandler]
    /\ now = 0
    /\ fault = {}
    /\ failedJobs = {}
    /\ call = NoCall
    /\ hist = NoHist

NextStart ==
    \/ main
    \/ run
    \/ listenAndServeReturn
    \/ \E job \in DispatchJobs : triggerJobCall(job)
    \/ \E o \in DispatchOutcomes : triggerJobAnswer(o)

SpecStart == InitStart /\ [][NextStart]_vars

----------------------------------------------------------------------------
(* The server with the history of its requests kept *)

\* Two keys with the same job, a key reached by the default branch, a key with
\* a duplicate row, and a row with an empty repository field.
EventsFile ==
    << <<RepoA, Main, Job1>>,
       <<RepoB, Main, Job1>>,
       <<RepoA, Master, Job2>>,
       <<RepoA, Master, Job1>>,
       <<RepoC, Main, Job2>>,
       <<RepoC, Main, Job2>>,
       <<<<>>, Main, Job1>> >>

EventRequests ==
    { Query(<<RepoA>>, <<Main>>),
      Query(<<RepoB>>, <<Main>>),
      Query(<<RepoA>>, <<>>),
      Query(<<RepoA>>, <<Master>>),
      Query(<<RepoC>>, <<Main>>),
      Query(<<RepoB>>, <<>>),
      Query(<<>>, <<Main>>) }

\* -quietperiod 0 is accepted: the timer matures as soon as it is created
EventQuietPeriods == {0, 1}

\* the build server answers every trigger with 200
EventOutcomes == {[err |-> FALSE, status |-> 200]}

InitEvents ==
    /\ file = EventsFile
    /\ filematch = FALSE
    /\ loaded = ParseMappingFile(file, filematch)
    /\ looked = NotLooked
    /\ mapping = loaded.tm.entries
    /\ QuietPeriod \in EventQuietPeriods
    /\ timeKeeper = EmptyMap
    /\ timers = <<>>
    /\ handlers = [h \in Handlers |-> IdleHandler]
    /\ now = 0
    /\ fault = {}
    /\ failedJobs = {}
    /\ JenkinsURL = BaseURL
    /\ JenkinsUser = <<>>
    /\ JenkinsToken = Token
    /\ JenkinsMulti = <<>>
    /\ args = <<>>
    /\ proc = Serving
    /\ call = NoCall
    /\ hist = [NoHist EXCEPT !.on = TRUE]

NextEvents ==
    \/ \E h \in Handlers, q \in EventRequests : handler(h, q)
    \/ \E h \in Handlers : createTimerCheck(h)
    \/ \E h \in Handlers : createTimerStop(h)
    \/ \E h \in Handlers : createTimerDelete(h)
    \/ \E h \in Handlers : createTimerAfterFunc(h)
    \/ \E h \in Handlers : createTimerStore(h)
    \/ \E h \in Handlers : createTimerSaved(h)
    \/ \E t \in TimerIds : timerFire(t)
    \/ \E t \in TimerIds, o \in EventOutcomes : triggerJobReturn(t, o)
    \/ \E t \in TimerIds : callbackCheck(t)
    \/ \E t \in TimerIds : callbackDelete(t)
    \/ concurrentMapAccess
    \/ listenAndServeReturn
    \/ Tick

SpecEvents == InitEvents /\ [][NextEvents]_vars

\* The same server when its clients send one request at a time, each after
\* the handler of the one before has returned: one handler goroutine.
OneByOneRequests ==
    { Query(<<RepoA>>, <<>>),
      Query(<<RepoA>>, <<Master>>),
      Query(<<RepoA>>, <<Main>>),
      Query(<<RepoB>>, <<>>),
      Query(<<>>, <<Main>>),
      Query(<<>>, <<>>) }

NextRequests ==
    \/ \E q \in OneByOneRequests : handler(1, q)
    \/ createTimerCheck(1)
    \/ createTimerStop(1)
    \/ createTimerDelete(1)
    \/ createTimerAfterFunc(1)
    \/ createTimerStore(1)
    \/ createTimerSaved(1)
    \/ \E t \in TimerIds : timerFire(t)
    \/ \E t \in TimerIds, o \in EventOutcomes : triggerJobReturn(t, o)
    \/ \E t \in TimerIds : callbackCheck(t)
    \/ \E t \in TimerIds : callbackDelete(t)
    \/ concurrentMapAccess
    \/ listenAndServeReturn
    \/ Tick

SpecRequests == InitEvents /\ [][NextRequests]_vars

----------------------------------------------------------------------------
(* Properties of the timer registry *)

Jobs == {Job1, Job2}

TimersOf(j) == {t \in TimerIds : timers[t].job = j}

Pending(j) == {t \in TimersOf(j) : timers[t].st = "pending"}

\* the timer matured and its callback started the dispatch
Fired(t) == timers[t].st \in {"dispatching", "check", "delete", "done"}

\* a handler is inside createTimer for job j
Arming(j) == \E h \in Handlers : handlers[h].pc # "idle" /\ HJob(h) = j

\* no arm of the timer's job came after the one that created timer t
LastArm(t) ==
    /\ ~Arming(timers[t].job)
    /\ \A u \in TimersOf(timers[t].job) : u <= t

\* the timer runs its full quiet period and is not cancelled
RunsFullPeriod(t) ==
    /\ timers[t].st # "stopped"
    /\ timers[t].deadline = timers[t].armed + QuietPeriod
    /\ timers[t].st = "pending" => now <= timers[t].deadline
    /\ Fired(t) => timers[t].firedAt = timers[t].armed + QuietPeriod

\* C1: every job has at most one pending timer, in every reachable state.
C1_AtMostOnePending == \A j \in Jobs : Cardinality(Pending(j)) <= 1

\* C2: when a newer timer t2 of the job has been registered while the callback
\* of the job's timer t1 was still running, the cleanup of t1 does not remove
\* t2's registry entry: after it the registry still maps the job to t2.
C2_StaleCleanupKeepsNewer ==
    [][\A t1 \in TimerIds :
        ( /\ timers[t1].st = "delete"
          /\ timers'[t1].st = "done"
          /\ timers[t1].job \in DOMAIN timeKeeper
          /\ timeKeeper[timers[t1].job] > t1
          /\ timers[timeKeeper[timers[t1].job]].st = "pending"
          /\ timers[timeKeeper[timers[t1].job]].armed >= timers[t1].firedAt )
        => /\ timers[t1].job \in DOMAIN timeKeeper'
           /\ timeKeeper'[timers[t1].job] = timeKeeper[timers[t1].job]]_vars

\* C3: when a job is armed (t1) and armed again (t2) before t1's quiet period
\* has elapsed, and no further arm follows, the job is dispatched once, by t2
\* at (arm of t2) + quiet period: t1 never fires.
C3_SecondArmWins ==
    \A t1, t2 \in TimerIds :
        ( /\ t1 < t2
          /\ timers[t1].job = timers[t2].job
          /\ \A u \in TimersOf(timers[t1].job) : u <= t1 \/ u >= t2
          /\ timers[t2].armed < timers[t1].armed + QuietPeriod
          /\ LastArm(t2) )
        => /\ ~Fired(t1)
           /\ RunsFullPeriod(t2)

\* C4: whenever a dispatch of a job starts, a full quiet period has elapsed
\* since the most recent arm of that job.
C4_QuietSinceLastArm ==
    \A t, u \in TimerIds :
        ( /\ Fired(t)
          /\ timers[u].job = timers[t].job
          /\ timers[u].armed < timers[t].firedAt )
        => timers[t].firedAt >= timers[u].armed + QuietPeriod

ArmTimes(j) == {timers[t].armed : t \in TimersOf(j)}

\* C5: a job is dispatched only once a gap of at least the quiet period has
\* occurred in the arrival of its events: some arm a with no arm of the job
\* during the quiet period after it, which ended before the dispatch.
C5_NoFireWithoutGap ==
    \A t \in TimerIds :
        Fired(t) =>
            \E a \in ArmTimes(timers[t].job) :
                /\ a + QuietPeriod <= timers[t].firedAt
                /\ ~\E b \in ArmTimes(timers[t].job) : a < b /\ b < a + QuietPeriod

\* the timer was armed when its job was idle again after an earlier dispatch
\* and cleanup of the job had completed
ArmedAfterCompletion(t) ==
    /\ timers[t].idleAtArm
    /\ \E t1 \in TimersOf(timers[t].job) : t1 < t /\ timers[t1].st = "done"

\* C6: a job armed again after its earlier dispatch and cleanup completed gets
\* a second dispatch of its own, one full quiet period after the second arm.
C6_SecondFireAfterFullPeriod ==
    \A t \in TimerIds :
        (ArmedAfterCompletion(t) /\ LastArm(t)) => RunsFullPeriod(t)

C6_Witness ==
    \E t \in TimerIds :
        /\ ArmedAfterCompletion(t)
        /\ LastArm(t)
        /\ Fired(t)
        /\ timers[t].firedAt = timers[t].armed + QuietPeriod

\* what the callback of timer t does in a step, once a dispatch of its job
\* has failed: cleanup follows the return of triggerJob, the cleanup removes
\* the entry it finds, and when the callback ends the job has no entry
CallbackCleansUp(t) ==
    timers[t].job \in failedJobs' =>
        /\ (timers[t].st = "dispatching" /\ timers'[t].st # "dispatching")
            => timers'[t].st = "check"
        /\ (timers[t].st = "check" /\ timers'[t].st # "check")
            => timers'[t].st =
                 IF timers[t].job \in DOMAIN timeKeeper THEN "delete" ELSE "done"
        /\ (timers[t].st # "done" /\ timers'[t].st = "done")
            => timers[t].job \notin DOMAIN timeKeeper'

\* C7: after a failed dispatch (non-2xx status, transport error or timeout)
\* the callback still goes on to remove the job's registry entry and leaves
\* the job without an entry when it ends, and the timers armed afterwards, for
\* the same or another job, run their full quiet period and fire.
C7_FailedDispatchRecovers ==
    /\ [][\A t \in TimerIds : CallbackCleansUp(t)]_vars
    /\ [](\A t \in TimerIds : (failedJobs # {} /\ LastArm(t)) => RunsFullPeriod(t))

C7_Witness ==
    \E t1, t2 \in TimerIds :
        /\ t1 < t2
        /\ timers[t1].job = timers[t2].job
        /\ timers[t1].st = "done"
        /\ timers[t1].job \in failedJobs
        /\ timers[t2].idleAtArm
        /\ LastArm(t2)
        /\ timers[t2].st = "dispatching"
        /\ timers[t2].firedAt = timers[t2].armed + QuietPeriod

\* C8: two handlers arming different jobs at the same time do not interfere:
\* the process keeps running, and each job ends up with its one timer
\* registered and pending, or fired one quiet period after its arm.
C8_DifferentJobsIndependent ==
    /\ \A h1, h2 \in Handlers :
        ( /\ h1 # h2
          /\ handlers[h1].pc # "idle"
          /\ handlers[h2].pc # "idle"
          /\ HJob(h1) # HJob(h2)
          /\ \A t \in TimerIds : timers[t].st \notin {"check", "delete"} )
        => ~crashed
    /\ \A t1, t2 \in TimerIds :
        ( /\ timers[t1].job # timers[t2].job
          /\ TimersOf(timers[t1].job) = {t1}
          /\ TimersOf(timers[t2].job) = {t2}
          /\ timers[t1].armed = timers[t2].armed
          /\ LastArm(t1)
          /\ LastArm(t2) )
        => /\ RunsFullPeriod(t1)
           /\ timers[t1].st = "pending" => ( /\ timers[t1].job \in DOMAIN timeKeeper
                                             /\ timeKeeper[timers[t1].job] = t1 )

----------------------------------------------------------------------------
(* Properties of the mapping table *)

\* the job names of the rows whose first two fields are the pair, in file order
RECURSIVE MatchingJobs(_, _, _)
MatchingJobs(f, repo, branch) ==
    IF Len(f) = 0 THEN <<>>
    ELSE (IF Head(f)[1] = repo /\ Head(f)[2] = branch THEN <<Head(f)[3]>> ELSE <<>>)
         \o MatchingJobs(Tail(f), repo, branch)

RowsHaveSep == \E i \in 1..Len(file) : HasSep(file[i][1]) \/ HasSep(file[i][2])

\* C9 as stated: in non-file-matching mode a lookup of repository|branch
\* returns exactly the jobs of the rows whose first two fields are that pair,
\* in file order, duplicates kept.
C9_LookupReturnsMatchingRows ==
    (~filematch /\ looked.done)
    => looked.jobs = MatchingJobs(file, looked.repo, looked.branch)

\* C9 amended: the same, provided the looked-up pair, or the first two fields
\* of every row, contain no separator character.
C9_LookupReturnsMatchingRowsNoSep ==
    ( /\ ~filematch
      /\ looked.done
      /\ ~(HasSep(looked.repo) \/ HasSep(looked.branch)) \/ ~RowsHaveSep )
    => looked.jobs = MatchingJobs(file, looked.repo, looked.branch)

C9_Witness ==
    /\ ~filematch
    /\ looked.done
    /\ ~HasSep(looked.repo)
    /\ ~HasSep(looked.branch)
    /\ looked.jobs = <<Job2, Job1>>

\* C10: in file-matching mode a source with a row of other than 4 fields
\* fails to load as a whole: an error and no table.
C10_BadRowFailsWholeLoad ==
    ( /\ filematch
      /\ loaded # Unloaded
      /\ \E i \in 1..Len(file) : Len(file[i]) # 4 )
    => /\ loaded.err \in {"ErrFieldCount", "no file matching information"}
       /\ loaded.tm = NilTable

C10_Witness ==
    /\ filematch
    /\ loaded # Unloaded
    /\ Len(file) = 2
    /\ Len(file[1]) = 4
    /\ Len(file[2]) # 4
    /\ loaded.tm.isNil

----------------------------------------------------------------------------
(* Properties of startup and of the trigger call *)

\* the mapping file is there and ParseMappingFile fails on it
Malformed(f, fm) == f # NoFile /\ ParseMappingFile(f, fm).err # "nil"

\* C11: when the base URL or the token is absent, or the mapping file cannot
\* be opened or is malformed, startup ends in a non-zero exit and never
\* serves; the process serves only with a successfully loaded mapping table.
C11_StartupFailsWithoutMapping ==
    /\ ( /\ proc.pc \notin {"main", "start"}
         /\ \/ JenkinsURL = <<>>
            \/ JenkinsToken = <<>>
            \/ file = NoFile
            \/ Malformed(file, filematch) )
       => (proc.pc = "exited" /\ proc.exit # 0)
    /\ proc.pc = "serving"
       => (loaded.err = "nil" /\ ~loaded.tm.isNil /\ mapping = loaded.tm.entries)

\* C14: triggerJob returns true exactly when the request completed with a
\* 2xx status, and false for any other status, transport error or timeout.
C14_TrueExactlyOn2xx ==
    call.done => (call.ret <=> (call.sent /\ Is2xx(call.outcome)))

\* s occurs in u as a substring
Contains(u, s) ==
    \E i \in 1..(Len(u) - Len(s) + 1) : SubSeq(u, i, i + Len(s) - 1) = s

\* C15: every request sent, answered yet or not, carries exactly one credential: with a username
\* configured, basic authentication and a URL without a token parameter;
\* without one, the URL {baseURL}/job/{job}/build?token={token} and no
\* basic authentication.
C15_ExactlyOneCredential ==
    call.sent =>
        IF JenkinsUser # <<>>
        THEN /\ call.req.auth = <<JenkinsUser, JenkinsToken>>
             /\ ~Contains(call.req.url, TokenParam)
        ELSE /\ call.req.auth = <<>>
             /\ call.req.url =
                  createJobURL(JenkinsURL, call.job) \o TokenParam \o JenkinsToken

\* C19: in file-matching mode every row is filed under the three-part key
\* repository|branch|file-pattern, and the handler's lookup of the two-part key
\* repository|branch is empty whenever neither value contains the separator:
\* only a request with a separator in repo or branch can find a job.
C19_FileMatchLookupEmpty ==
    (filematch /\ loaded.err = "nil") =>
        /\ \A i \in 1..Len(file) :
             BuildMappingKey(<<file[i][1], file[i][2], file[i][4]>>)
                \in DOMAIN loaded.tm.entries
        /\ (looked.done /\ ~HasSep(looked.repo) /\ ~HasSep(looked.branch))
             => looked.jobs = <<>>
        /\ (looked.done /\ looked.jobs # <<>>)
             => (HasSep(looked.repo) \/ HasSep(looked.branch))

C19_Witness ==
    /\ filematch
    /\ loaded.err = "nil"
    /\ looked.done
    /\ ~HasSep(looked.repo)
    /\ ~HasSep(looked.branch)
    /\ \E i \in 1..Len(file) :
         file[i][1] = looked.repo /\ file[i][2] = looked.branch
    /\ looked.jobs = <<>>

----------------------------------------------------------------------------
(* Properties of request handling *)

NoRepo(q) == Len(q.repo) = 0
NoBranch(q) == Len(q.branch) = 0

\* the jobs of the timers event e created, in the order of their creation
RECURSIVE ArmedFrom(_, _)
ArmedFrom(e, t) ==
    IF t > Len(timers) THEN <<>>
    ELSE (IF hist.origin[t].ev = e THEN <<timers[t].job>> ELSE <<>>) \o ArmedFrom(e, t + 1)

ArmedBy(e) == ArmedFrom(e, 1)

\* the jobs handler h has yet to call createTimer for
Remaining(h) ==
    IF handlers[h].pc \in {"store", "saved"}
    THEN Tail(handlers[h].jobs) ELSE handlers[h].jobs

IsPrefix(s, t) == Len(s) <= Len(t) /\ SubSeq(t, 1, Len(s)) = s

\* C12: a request without the repo parameter is dropped, whatever its branch
\* parameter: the step that receives it changes no timer, no registry entry
\* and starts no createTimer call, and no handler and no timer ever stems
\* from such a request.
C12_NoRepoDropped ==
    /\ [][hist'.drop # hist.drop =>
            /\ timeKeeper' = timeKeeper
            /\ timers' = timers
            /\ handlers' = handlers
            /\ hist'.by = hist.by]_vars
    /\ [](/\ \A h \in Handlers : hist.by[h].ev # 0 => ~NoRepo(hist.by[h].q)
          /\ \A t \in TimerIds : ~NoRepo(hist.origin[t].q))

C12_Witness ==
    /\ hist.drop
    /\ \E t \in TimerIds :
        /\ timers[t].st = "pending"
        /\ timers[t].job \in DOMAIN timeKeeper
        /\ timeKeeper[timers[t].job] = t
    /\ \E t \in TimerIds : timers[t].st = "dispatching"

\* C13: a request with repo=R and no branch parameter is handled like one with
\* repo=R and branch=master: the handler's job list is that of the key
\* R|master, and the timers the event creates are for these jobs, in order.
C13_DefaultBranchMaster ==
    /\ \A R \in {RepoA, RepoB, RepoC} :
        HandlerJobs(Query(<<R>>, <<>>)) = HandlerJobs(Query(<<R>>, <<Master>>))
    /\ \A h \in Handlers :
        (hist.by[h].ev # 0 /\ NoBranch(hist.by[h].q)) =>
            ArmedBy(hist.by[h].ev) \o Remaining(h)
                = Lookup(mapping, BuildMappingKey(<<hist.by[h].q.repo[1], Master>>))
    /\ \A t \in TimerIds :
        NoBranch(hist.origin[t].q) =>
            IsPrefix(ArmedBy(hist.origin[t].ev),
                     Lookup(mapping, BuildMappingKey(<<hist.origin[t].q.repo[1], Master>>)))

C13_Witness ==
    /\ \A h \in Handlers : handlers[h].pc = "idle"
    /\ \E t \in TimerIds :
        /\ hist.origin[t].q = Query(<<RepoA>>, <<>>)
        /\ ArmedBy(hist.origin[t].ev) = <<Job2, Job1>>
        /\ Fired(t)

\* the lookup key of the request
EventKey(q) ==
    BuildMappingKey(<<ParseGetRequest(q).repo, ParseGetRequest(q).branch>>)

\* C16: the registry is keyed by job name only: when two events of different
\* keys that map to the same job arrive within one quiet period, the second
\* resets the timer of the first, and the job is dispatched once, one quiet
\* period after the second.
C16_SameJobSharesTimer ==
    \A t1, t2 \in TimerIds :
        ( /\ t1 < t2
          /\ timers[t1].job = timers[t2].job
          /\ EventKey(hist.origin[t1].q) # EventKey(hist.origin[t2].q)
          /\ TimersOf(timers[t1].job) = {t1, t2}
          /\ timers[t2].armed < timers[t1].armed + QuietPeriod
          /\ LastArm(t2) )
        => /\ timers[t1].st = "stopped"
           /\ RunsFullPeriod(t2)

\* C18: a createTimer call that begins while a dispatch of its job is in
\* flight does not cancel that dispatch, and it creates its timer, which runs
\* its full quiet period: that expiry and that arm make two dispatches.
C18_ArmDuringDispatch ==
    /\ [][\A t \in TimerIds :
            timers[t].st = "dispatching" => timers'[t].st \in {"dispatching", "check"}]_vars
    /\ [][\A h \in Handlers :
            (hist.by[h].inflight /\ handlers[h].pc \in {"stop", "delete", "afterfunc"})
            => handlers'[h].pc # "idle"]_vars
    /\ [](\A t \in TimerIds :
            (hist.origin[t].inflight /\ LastArm(t)) => RunsFullPeriod(t))

\* C20: when the job list of a key names a job twice, one event for the key
\* arms the job twice in sequence and the second arm resets the first: the
\* first timer never fires, and once the handler has returned one timer of the
\* event is left, so that the event causes one dispatch of the job.
C20_DuplicateRowsOneDispatch ==
    \A t1, t2 \in TimerIds :
        ( /\ t1 < t2
          /\ timers[t1].job = timers[t2].job
          /\ hist.origin[t1].ev = hist.origin[t2].ev
          /\ \A u \in TimersOf(timers[t1].job) : hist.origin[u].ev = hist.origin[t1].ev )
        => /\ timers[t1].st = "stopped"
           /\ LastArm(t2) => RunsFullPeriod(t2)

----------------------------------------------------------------------------
(* Liveness of the timer registry *)

\* job j has no registry entry and no pending timer
IdleJob(j) == j \notin DOMAIN timeKeeper /\ Pending(j) = {}

\* every timer of job j matures within the time the clock covers
WithinClock(j) == \A t \in TimersOf(j) : timers[t].deadline <= MaxTime

\* C17: under fair scheduling, when the events for a job stop (and the
\* process keeps running), the job is dispatched and then stays idle: no
\* registry entry and no pending timer; and a callback removes the registry
\* entry only after its dispatch call has returned.
C17_EventuallyIdle ==
    /\ \A j \in Jobs :
        ( /\ [](~crashed /\ proc.pc = "serving" /\ WithinClock(j))
          /\ <>(TimersOf(j) # {})
          /\ <>[]~Arming(j) )
        => <>[](IdleJob(j) /\ \E t \in TimersOf(j) : Fired(t))
    /\ [][\A t \in TimerIds :
            (timers[t].st # "done" /\ timers'[t].st = "done")
            => timers[t].st \in {"check", "delete"}]_vars

====
